---------------------------- MODULE Spec2Model ----------------------------
(***************************************************************************)
(* Differential resource accounting of the Redox backend of sysinfo:       *)
(*   src/unix/redox/cpu.rs      CpuValues, CpuUsage, CpuInner, CpusWrapper  *)
(*   src/unix/redox/process.rs  ProcessInner, set_time, compute_cpu_usage,  *)
(*                              refresh_procs, FileCounter                  *)
(*                                                                         *)
(* u64 counters are modelled with the scaled width 0..U64_MAX.  f32 values *)
(* (percentages) are modelled as exact rationals [n, d] in lowest terms:   *)
(* the f32 operations used (division by a positive number, addition of     *)
(* non-negative numbers, multiplication by 100, min) are monotone, so the  *)
(* order relations against the clamp values carry over to the rounded      *)
(* results.                                                                *)
(***************************************************************************)
EXTENDS Integers, Sequences, FiniteSets, TLC

(***************************************************************************)
(* Bounds of the model.                                                    *)
(***************************************************************************)
\* largest value of the modelled u64 (stands for u64::MAX)
U64_MAX == 63
\* a raw counter tuple fed to CpuUsage::set has components summing to at most this
MaxSum == 2
\* initial value of the process-wide remaining-files budget (remaining_files())
Budget == 2
\* threads that acquire and release guards on the shared budget
NThreads == 2
\* recorded guard events (acquisitions, refusals, releases) per run
MaxLog == 5
\* process ids are 1..MaxPid
MaxPid == 2
\* records (lines after the header) of a process enumeration
MaxRecords == 2
\* utime and stime given to set_time directly are 0..MaxTime
MaxTime == 2
\* total_time given to compute_cpu_usage is 1..MaxElapsed
MaxElapsed == 2
\* max_value given to compute_cpu_usage is 100 * k for k in -1..MaxCores
MaxCores == 2
\* clock ticks that make up crate::MINIMUM_CPU_UPDATE_INTERVAL
MINIMUM_CPU_UPDATE_INTERVAL == 2
\* per-core lines of /scheme/sys/stat are named cpu0 .. cpu<MaxCoreIndex>
MaxCoreIndex == 1
\* lines of /scheme/sys/stat
MaxLines == 2
\* the user counter the source shows is 0..MaxTick
MaxTick == 1
\* the value of the MEM column of a record is 0..MaxMem
MaxMem == 2
\* the I/O byte counters of an entity given to disk_usage are 0..MaxBytes
MaxBytes == 2

\* Option<T>: None, or Some(x)
None == <<>>

Some(x) == <<x>>

Unwrap(o) == o[1]

VARIABLES
    \* ---- cpu.rs: one Usage Accumulator driven directly (CpuUsage) ----
    usage,          \* CpuUsage
    samples,        \* the raw tuples the counter source shows during this run
    hist,           \* the last (at most two) operations applied to usage: [op, raw]
    \* ---- cpu.rs: CpusWrapper ----
    global_cpu,     \* CpusWrapper.global_cpu : CpuUsage
    cpus,           \* CpusWrapper.cpus : the sequence of CpuInner
    last_update,    \* CpusWrapper.last_update : None, or Some(ticks elapsed since)
    last_call,      \* None, or Some(ticks elapsed since the last refresh call)
    layout,         \* the line names of /scheme/sys/stat, in order
    tick,           \* the user counter /scheme/sys/stat currently shows
    looked_up,      \* get_vendor_id_and_brand has been called on this manager
    lookup_now,     \* the refresh call just made called get_vendor_id_and_brand
    cpuAct,         \* outcome of the refresh call just made: "read", "failed" (the
                    \* source could not be read) or "skipped"; "none" otherwise
    panicked,       \* a panic has unwound out of an operation
    \* ---- process.rs: FileCounter and the REMAINING_FILES budget ----
    remaining,      \* the atomic counter behind remaining_files()
    pc,             \* per thread: "idle", or "cas" inside fetch_update's loop
    prev,           \* per thread: the counter value fetch_update last read
    held,           \* per thread: number of live FileCounter guards it owns
    log,            \* guard events in the order of their atomic accesses
    contended,      \* some compare-exchange lost against another thread
    stat_file,      \* per thread: the slot (ProcessInner.stat_file) of the entity
                    \* it samples holds a guard
    before,         \* per thread: the counter value when its _get_stat_data call
                    \* in progress began
    alone,          \* per thread: no other thread has changed the counter since
                    \* its _get_stat_data call in progress began
    \* ---- process.rs: the entity map and the process accounting ----
    proc_list,      \* HashMap<Pid, Process>: a function on the pids present
    enumeration,    \* the text the process source currently shows (lines)
    max_value,      \* the max_value the caller gives to compute_cpu_usage
    nset,           \* per pid: set_time calls applied to the entity (capped at 2)
    touched,        \* the pids whose entity the refresh_procs pass just made upserted
                    \* (empty once another operation has followed)
    time_args,      \* the arguments of the last call of set_time on an entity, if any
    read_failed,    \* the refresh_procs pass just made could not read its source
    chosen,         \* the selector (processes_to_update) given to the refresh_procs
                    \* pass just made, where the specification keeps track of it
    lastAct,        \* the last operation on the entity map
    ret             \* Some(value returned by the last refresh_procs), else None

usageVars == <<usage, samples, hist>>

cpuVars == <<global_cpu, cpus, last_update, last_call, layout, tick, looked_up, lookup_now, cpuAct>>

slotVars == <<stat_file, before, alone>>

guardVars == <<remaining, pc, prev, held, log, contended, slotVars>>

procVars == <<proc_list, enumeration, max_value, nset, touched, time_args, read_failed, chosen, lastAct, ret>>

vars == <<usageVars, cpuVars, guardVars, procVars, panicked>>

Threads == 1..NThreads

Pids == 1..MaxPid

(***************************************************************************)
(* Integer helpers (std u64 arithmetic).                                   *)
(***************************************************************************)
saturating_sub(a, b) == IF a > b THEN a - b ELSE 0

saturating_add(a, b) == IF a + b > U64_MAX THEN U64_MAX ELSE a + b

\* `a + b` on u64 in a build without overflow checks
wrapping_add(a, b) == (a + b) % (U64_MAX + 1)

RECURSIVE GCD(_, _)
GCD(a, b) == IF b = 0 THEN a ELSE GCD(b, a % b)

\* the rational num/den (den > 0, num >= 0) in lowest terms
Ratio(num, den) ==
    LET g == GCD(num, den)
    IN  [n |-> num \div g, d |-> den \div g]

RatLeq(p, q) == p.n * q.d <= q.n * p.d

RatMin(p, q) == IF RatLeq(p, q) THEN p ELSE q

(***************************************************************************)
(* CpuValues (Counter Snapshot)                                            *)
(***************************************************************************)
CounterFields ==
    {"user", "nice", "system", "idle", "iowait", "irq", "softirq", "steal",
     "guest", "guest_nice"}

CpuValues_default == [f \in CounterFields |-> 0]

\* the raw tuple stored verbatim
CpuValues_verbatim(raw) == raw

\* CpuValues::set : the snapshot stored for the raw tuple `raw`
CpuValues_set(raw) ==
    [raw EXCEPT !.user = saturating_sub(raw.user, raw.guest),
                !.nice = saturating_sub(raw.nice, raw.guest_nice)]

work_time(v) == saturating_add(v.user, v.nice)

system_time(v) == saturating_add(saturating_add(v.system, v.irq), v.softirq)

idle_time(v) == saturating_add(v.idle, v.iowait)

virtual_time(v) == saturating_add(v.guest, v.guest_nice)

total_time(v) ==
    saturating_add(
        saturating_add(
            saturating_add(
                saturating_add(work_time(v), system_time(v)),
                idle_time(v)),
            virtual_time(v)),
        v.steal)

(***************************************************************************)
(* CpuUsage (Usage Accumulator)                                            *)
(***************************************************************************)
CpuUsage_default ==
    [percent        |-> Ratio(0, 1),
     old_values     |-> CpuValues_default,
     new_values     |-> CpuValues_default,
     total_time     |-> 0,
     old_total_time |-> 0]

CpuUsage_new_with_values(raw) ==
    [percent        |-> Ratio(0, 1),
     old_values     |-> CpuValues_default,
     new_values     |-> CpuValues_set(raw),
     total_time     |-> 0,
     old_total_time |-> 0]

\* the macro min!(a, b, def) of CpuUsage::set
min_macro(a, b, def) == IF a > b THEN a - b ELSE def

\* no clamp
clamp_percent_none(p) == p

\* the clamp at the end of CpuUsage::set
clamp_percent(p) == IF ~RatLeq(p, Ratio(100, 1)) THEN Ratio(100, 1) ELSE p

\* the u64 addition `steal_period + guest_period` of CpuUsage::set overflows
CpuUsage_set_overflows(self, raw) ==
    LET old == self.new_values
        new == CpuValues_set(raw)
    IN  saturating_sub(new.steal, old.steal)
          + saturating_sub(virtual_time(new), virtual_time(old)) > U64_MAX

\* the old snapshot is left as it was
keep_old_values(self) == self.old_values

\* the old snapshot is a baseline: taken once, on the first non-zero sample
baseline_values(self) ==
    IF self.old_values = CpuValues_default THEN self.new_values ELSE self.old_values

\* `self.old_values = self.new_values` of CpuUsage::set
shift_old_values(self) == self.new_values

\* CpuUsage::set : the accumulator after set(raw).  `checks` tells whether the
\* build checks integer overflow: the unchecked `steal_period + guest_period`
\* then panics (leaving the percentage as it was) instead of wrapping.
CpuUsage_set(self, raw, checks) ==
    LET old_values     == shift_old_values(self)
        new_values     == CpuValues_set(raw)
        tt             == total_time(new_values)
        ott            == total_time(old_values)
        nice_period    == saturating_sub(new_values.nice, old_values.nice)
        user_period    == saturating_sub(new_values.user, old_values.user)
        steal_period   == saturating_sub(new_values.steal, old_values.steal)
        guest_period   == saturating_sub(virtual_time(new_values),
                                         virtual_time(old_values))
        system_period  == saturating_sub(system_time(new_values),
                                         system_time(old_values))
        total          == min_macro(tt, ott, 1)
        irq            == wrapping_add(steal_period, guest_period)
        percent        == Ratio((nice_period + user_period + system_period + irq) * 100,
                                total)
    IN  [percent        |-> IF checks /\ CpuUsage_set_overflows(self, raw)
                            THEN self.percent
                            ELSE clamp_percent(percent),
         old_values     |-> old_values,
         new_values     |-> new_values,
         total_time     |-> tt,
         old_total_time |-> ott]

\* the build flavours in which set(raw) can run: an overflowing addition panics
\* with overflow checks and wraps without them
OverflowChecks(self, raw) ==
    IF CpuUsage_set_overflows(self, raw) THEN BOOLEAN ELSE {FALSE}

(***************************************************************************)
(* Inputs of the accumulator specification.                                *)
(***************************************************************************)
FieldOrder ==
    <<"user", "nice", "system", "idle", "iowait", "irq", "softirq", "steal",
      "guest", "guest_nice">>

\* the sequences of k naturals whose sum is at most budget
RECURSIVE SeqsUpTo(_, _)
SeqsUpTo(k, budget) ==
    IF k = 0 THEN {<<>>}
    ELSE UNION {{Append(t, x) : t \in SeqsUpTo(k - 1, budget - x)} : x \in 0..budget}

\* the raw counter tuples whose components sum to at most MaxSum
RawTuples ==
    {[f \in CounterFields |-> t[CHOOSE i \in 1..Len(FieldOrder) : FieldOrder[i] = f]] :
        t \in SeqsUpTo(Len(FieldOrder), MaxSum)}

\* a raw tuple as one number, its fields being the digits
RECURSIVE CodeFrom(_, _)
CodeFrom(raw, i) ==
    IF i > Len(FieldOrder) THEN 0
    ELSE raw[FieldOrder[i]] + (MaxSum + 1) * CodeFrom(raw, i + 1)

Code(raw) == CodeFrom(raw, 1)

\* the sequences over S of length at most n
RECURSIVE SeqsOf(_, _)
SeqsOf(S, n) ==
    IF n = 0 THEN {<<>>}
    ELSE LET shorter == SeqsOf(S, n - 1)
         IN  shorter \cup {Append(t, x) : t \in {u \in shorter : Len(u) = n - 1}, x \in S}

Push(h, e) == IF Len(h) < 2 THEN Append(h, e) ELSE <<h[2], e>>

(***************************************************************************)
(* Specification SpecUsage: one Usage Accumulator.  It starts as the       *)
(* global accumulator does (CpuUsage::default) or is created as a Core     *)
(* Entity's is (new_with_values); afterwards only CpuUsage::set acts on    *)
(* it.  The source shows the raw tuples `samples`, in any order and any    *)
(* number of times, so every pair (previous snapshot, new raw tuple) over  *)
(* RawTuples occurs.                                                       *)
(***************************************************************************)
UsageIdle ==
    /\ usage = CpuUsage_default
    /\ samples = <<CpuValues_default, CpuValues_default>>
    /\ hist = <<>>

CpuIdle ==
    /\ global_cpu = CpuUsage_default
    /\ cpus = <<>>
    /\ last_update = None
    /\ last_call = None
    /\ layout = <<>>
    /\ tick = 0
    /\ looked_up = FALSE
    /\ lookup_now = FALSE
    /\ cpuAct = "none"

GuardIdle ==
    /\ remaining = Budget
    /\ pc = [t \in Threads |-> "idle"]
    /\ prev = [t \in Threads |-> 0]
    /\ held = [t \in Threads |-> 0]
    /\ log = <<>>
    /\ contended = FALSE
    /\ stat_file = [t \in Threads |-> FALSE]
    /\ before = [t \in Threads |-> 0]
    /\ alone = [t \in Threads |-> FALSE]

ProcIdle ==
    /\ proc_list = <<>>
    /\ enumeration = <<>>
    /\ max_value = 0
    /\ nset = <<>>
    /\ touched = {}
    /\ time_args = None
    /\ read_failed = FALSE
    /\ chosen = None
    /\ lastAct = "none"
    /\ ret = None

InitUsage ==
    /\ usage = CpuUsage_default
    /\ samples \in {pair \in RawTuples \X RawTuples : Code(pair[1]) <= Code(pair[2])}
    /\ hist = <<>>
    /\ panicked = FALSE
    /\ GuardIdle
    /\ CpuIdle
    /\ ProcIdle

\* a Core Entity's accumulator is created from the first sample
UsageNewWithValues ==
    \E i \in 1..2 :
        /\ hist = <<>>
        /\ usage' = CpuUsage_new_with_values(samples[i])
        /\ hist' = Push(hist, [op |-> "new", raw |-> samples[i]])
        /\ UNCHANGED <<samples, panicked, guardVars, procVars, cpuVars>>

UsageSet ==
    \E i \in 1..2 :
        \E checks \in OverflowChecks(usage, samples[i]) :
            /\ ~panicked
            /\ usage' = CpuUsage_set(usage, samples[i], checks)
            /\ panicked' = checks
            /\ hist' = Push(hist, [op |-> "set", raw |-> samples[i]])
            /\ UNCHANGED <<samples, guardVars, procVars, cpuVars>>

NextUsage == UsageNewWithValues \/ UsageSet

SpecUsage == InitUsage /\ [][NextUsage]_vars

(***************************************************************************)
(* Claims on the Usage Accumulator.                                        *)
(***************************************************************************)
LastOp == IF hist = <<>> THEN "init" ELSE hist[Len(hist)].op

LastRaw == hist[Len(hist)].raw

\* C1: after any sequence of CpuUsage::set calls (non-monotone samples and
\* counter resets included) the stored percentage is >= 0 and <= 100.
C1_PercentInRange ==
    /\ usage.percent.d > 0
    /\ usage.percent.n >= 0
    /\ usage.percent.n <= 100 * usage.percent.d

\* a set whose sample was not monotone (a counter went backwards while another
\* advanced by two): the quotient is 200 and the stored percentage 100
C1_Witness ==
    /\ LastOp = "set"
    /\ usage.old_total_time > 0
    /\ usage.total_time <= usage.old_total_time
    /\ \E f \in CounterFields : usage.new_values[f] < usage.old_values[f]
    /\ \E f \in {"user", "nice", "system"} :
           usage.new_values[f] >= usage.old_values[f] + 2
    /\ usage.percent = Ratio(100, 1)

\* C8: CpuUsage::set(S) twice in a row (or new_with_values(S) followed by
\* set(S)) leaves old snapshot = new snapshot, total_time = old_total_time,
\* every delta 0 and percentage 0.
C8_SameSnapshotTwice ==
    (Len(hist) = 2 /\ hist[2].op = "set" /\ hist[1].raw = hist[2].raw /\ ~panicked)
        => /\ usage.old_values = usage.new_values
           /\ usage.total_time = usage.old_total_time
           /\ \A f \in CounterFields :
                  saturating_sub(usage.new_values[f], usage.old_values[f]) = 0
           /\ usage.percent = Ratio(0, 1)

\* a non-zero tuple fed twice, the first time to a used accumulator
C8_Witness ==
    /\ Len(hist) = 2 /\ hist[1].op = "set" /\ hist[2].op = "set"
    /\ hist[1].raw = hist[2].raw
    /\ usage.total_time > 0
    /\ samples[1] # samples[2]

\* the Core Entity case: created from S, then updated with S
C8_WitnessCore ==
    /\ Len(hist) = 2 /\ hist[1].op = "new" /\ hist[2].op = "set"
    /\ hist[1].raw = hist[2].raw
    /\ usage.total_time > 0

\* C9: CpuValues::set stores user - guest and nice - guest_nice saturating at
\* 0 and the other eight fields verbatim.
C9_IngestSaturates ==
    hist # <<>> =>
        /\ usage.new_values.user =
              (IF LastRaw.user >= LastRaw.guest THEN LastRaw.user - LastRaw.guest ELSE 0)
        /\ usage.new_values.nice =
              (IF LastRaw.nice >= LastRaw.guest_nice
               THEN LastRaw.nice - LastRaw.guest_nice ELSE 0)
        /\ (LastRaw.guest > LastRaw.user => usage.new_values.user = 0)
        /\ (LastRaw.guest_nice > LastRaw.nice => usage.new_values.nice = 0)
        /\ \A f \in CounterFields \ {"user", "nice"} : usage.new_values[f] = LastRaw[f]

\* a crafted tuple with guest > user has been ingested
C9_Witness ==
    /\ hist # <<>>
    /\ LastRaw.guest > LastRaw.user
    /\ usage.new_values.user = 0
    /\ usage.new_values.guest = LastRaw.guest

\* max(a - b, 0)
Delta(a, b) == IF a > b THEN a - b ELSE 0

\* the percentage the pair (old, new) of snapshots stands for
PercentOfPair(old, new) ==
    LET sys(v)   == v.system + v.irq + v.softirq
        virt(v)  == v.guest + v.guest_nice
        tot(v)   == v.user + v.nice + sys(v) + v.idle + v.iowait + virt(v) + v.steal
        busy     == Delta(new.nice, old.nice) + Delta(new.user, old.user)
                      + Delta(sys(new), sys(old)) + Delta(new.steal, old.steal)
                      + Delta(virt(new), virt(old))
        elapsed  == IF tot(new) > tot(old) THEN tot(new) - tot(old) ELSE 1
    IN  IF busy > elapsed THEN Ratio(100, 1) ELSE Ratio(100 * busy, elapsed)

\* C15: after every CpuUsage::set the old snapshot is the snapshot that was
\* current immediately before the call, and the percentage is a function of the
\* resulting (old, new) pair alone, whatever the history of the accumulator.
C15_OldIsPreviousNew ==
    [][(LastOp' = "set" /\ ~panicked')
          => /\ usage'.old_values = usage.new_values
             /\ usage'.percent = PercentOfPair(usage'.old_values, usage'.new_values)]_vars

\* a set on a used accumulator: the old snapshot is the earlier, non-zero
\* sample, and the pair stands for a non-zero percentage
C15_Witness ==
    /\ Len(hist) = 2 /\ hist[1].op = "set" /\ hist[2].op = "set"
    /\ usage.old_values = CpuValues_set(hist[1].raw)
    /\ usage.old_values # usage.new_values
    /\ usage.old_values # CpuValues_default
    /\ usage.percent # Ratio(0, 1)

\* C28: in every reachable state of every Usage Accumulator, also right after
\* new_with_values has created it with initial counter values, the stored
\* total_time equals total_time() of the current snapshot and the stored
\* old_total_time equals total_time() of the previous snapshot.
C28_StoredTotalsMatchSnapshots ==
    /\ usage.total_time = total_time(usage.new_values)
    /\ usage.old_total_time = total_time(usage.old_values)

(***************************************************************************)
(* Specification SpecWide: the accumulator of SpecUsage on samples whose   *)
(* counters reach the integer maximum.                                     *)
(***************************************************************************)
\* the values a counter of a wide sample has
WideValues == {0, 1, U64_MAX}

\* the raw tuples with at most two counters other than zero
WideTuples ==
    {[f \in CounterFields |-> IF f = f1 THEN v1 ELSE IF f = f2 THEN v2 ELSE 0] :
        f1 \in CounterFields, f2 \in CounterFields, v1 \in WideValues, v2 \in WideValues}

InitWide ==
    /\ usage = CpuUsage_default
    /\ samples \in WideTuples \X WideTuples
    /\ hist = <<>>
    /\ panicked = FALSE
    /\ GuardIdle
    /\ CpuIdle
    /\ ProcIdle

NextWide == UsageNewWithValues \/ UsageSet

SpecWide == InitWide /\ [][NextWide]_vars

\* the exact sum of the counters of a snapshot, capped at the integer maximum
CappedSum(S) == IF S > U64_MAX THEN U64_MAX ELSE S

\* C27: for every pair of consecutive snapshots CpuUsage::set computes
\* percentage = min(100, 100 * (nice_delta + user_delta + system_delta +
\* steal_delta + virtual_delta) / max(total_time - old_total_time, 1)), each
\* delta being max(current - previous, 0), system_delta the delta of
\* system+irq+softirq and virtual_delta the delta of guest+guest_nice; when
\* every counter of the new sample is <= the old one the percentage is 0.
C27_PercentageFormula ==
    LastOp = "set" =>
        LET old     == usage.old_values
            new     == usage.new_values
            sys(v)  == CappedSum(v.system + v.irq + v.softirq)
            virt(v) == CappedSum(v.guest + v.guest_nice)
            busy    == Delta(new.nice, old.nice) + Delta(new.user, old.user)
                         + Delta(sys(new), sys(old)) + Delta(new.steal, old.steal)
                         + Delta(virt(new), virt(old))
            diff    == Delta(total_time(new), total_time(old))
            elapsed == IF diff > 1 THEN diff ELSE 1
        IN  /\ ~panicked
            /\ usage.percent = RatMin(Ratio(100, 1), Ratio(100 * busy, elapsed))
            /\ (\A f \in CounterFields : new[f] <= old[f]) => usage.percent = Ratio(0, 1)

\* C29: every addition on counters in the rollups of a Counter Snapshot and in
\* an accumulator update (work_time, system_time, idle_time, virtual_time,
\* total_time, and the sum of the steal and virtual deltas) is saturating: each
\* result is min(MAX, exact sum), and no addition overflows or wraps.
C29_AdditionsSaturate ==
    LET old == usage.old_values
        new == usage.new_values
    IN  /\ work_time(new) = CappedSum(new.user + new.nice)
        /\ system_time(new) = CappedSum(new.system + new.irq + new.softirq)
        /\ idle_time(new) = CappedSum(new.idle + new.iowait)
        /\ virtual_time(new) = CappedSum(new.guest + new.guest_nice)
        /\ total_time(new) = CappedSum(new.user + new.nice + new.system + new.irq
                                         + new.softirq + new.idle + new.iowait
                                         + new.guest + new.guest_nice + new.steal)
        /\ LastOp = "set" =>
              LET steal_virtual == CappedSum(Delta(new.steal, old.steal)
                                     + Delta(virtual_time(new), virtual_time(old)))
                  busy    == Delta(new.nice, old.nice) + Delta(new.user, old.user)
                               + Delta(system_time(new), system_time(old)) + steal_virtual
                  diff    == Delta(total_time(new), total_time(old))
                  elapsed == IF diff > 1 THEN diff ELSE 1
              IN  /\ ~panicked
                  /\ usage.percent = RatMin(Ratio(100, 1), Ratio(100 * busy, elapsed))

(***************************************************************************)
(* CpuInner (Core Entity) and CpusWrapper (Core Collection Manager)        *)
(***************************************************************************)
CpuInner_new_with_values(name, raw, frequency, vendor_id, brand) ==
    [usage     |-> CpuUsage_new_with_values(raw),
     name      |-> name,
     frequency |-> frequency,
     vendor_id |-> vendor_id,
     brand     |-> brand]

\* the entity is built anew around the updated accumulator
CpuInner_set_anew(cpu, raw) ==
    [usage     |-> CpuUsage_set(cpu.usage, raw, FALSE),
     name      |-> cpu.name,
     frequency |-> 0,
     vendor_id |-> "",
     brand     |-> ""]

\* CpuInner::set.  refresh passes steal = guest = guest_nice = 0, so the
\* unchecked addition of CpuUsage::set cannot overflow here
CpuInner_set(cpu, raw) == [cpu EXCEPT !.usage = CpuUsage_set(@, raw, FALSE)]

\* CpusWrapper::new (got_cpu_frequency, which no code of this backend reads or
\* writes afterwards, is left out)
CpusWrapper_new ==
    [global_cpu |-> CpuUsage_default, cpus |-> <<>>, last_update |-> None]

\* get_vendor_id_and_brand on the content of /scheme/sys/cpu: None when it
\* cannot be read, else Some([count, vendor, model]) with count the parsed
\* "CPUs" value (None when absent or unparsable)
get_vendor_id_and_brand(cpu_file) ==
    IF cpu_file = None THEN <<>>
    ELSE LET f     == Unwrap(cpu_file)
             count == IF f.count = None THEN 1 ELSE Unwrap(f.count)
         IN  [id \in 0..(count - 1) |-> <<f.vendor, f.model>>]

\* A line of /scheme/sys/stat as refresh reads it: what its name is
\* (starts_with("cpu"), == "cpu", name[3..].parse::<usize>()) and the five
\* columns parsed, 0 where a column is missing or does not parse.
GlobalName == [starts_with_cpu |-> TRUE, is_cpu |-> TRUE, index |-> None]

CoreName(i) == [starts_with_cpu |-> TRUE, is_cpu |-> FALSE, index |-> Some(i)]

\* "cpux": the prefix without a number after it
BadCoreName == [starts_with_cpu |-> TRUE, is_cpu |-> FALSE, index |-> None]

\* "name", the title line of the example output
OtherName == [starts_with_cpu |-> FALSE, is_cpu |-> FALSE, index |-> None]

\* the ten arguments refresh builds from a line
raw_of(line) ==
    [user |-> line.user, nice |-> line.nice, system |-> line.system,
     idle |-> line.idle, iowait |-> 0, irq |-> line.irq, softirq |-> 0,
     steal |-> 0, guest |-> 0, guest_nice |-> 0]

\* the loop of refresh over the lines of the text
RECURSIVE refresh_lines(_, _, _, _)
refresh_lines(self, lines, first, vendors_brands) ==
    IF lines = <<>> THEN self
    ELSE LET line == Head(lines)
             rest == Tail(lines)
             raw  == raw_of(line)
         IN  IF ~line.name.starts_with_cpu
             THEN refresh_lines(self, rest, first, vendors_brands)
             ELSE IF line.name.is_cpu
             THEN refresh_lines(
                      [self EXCEPT !.global_cpu = CpuUsage_set(@, raw, FALSE)],
                      rest, first, vendors_brands)
             ELSE IF line.name.index = None
             THEN refresh_lines(self, rest, first, vendors_brands)
             ELSE LET i == Unwrap(line.name.index)
                  IN  IF first
                      THEN LET vb == IF i \in DOMAIN vendors_brands
                                     THEN vendors_brands[i] ELSE <<"", "">>
                           IN  refresh_lines(
                                   [self EXCEPT !.cpus = Append(@,
                                       CpuInner_new_with_values(line.name, raw, 0,
                                                                vb[1], vb[2]))],
                                   rest, first,
                                   [j \in DOMAIN vendors_brands \ {i} |-> vendors_brands[j]])
                      ELSE IF i + 1 \in DOMAIN self.cpus
                      THEN refresh_lines(
                               [self EXCEPT !.cpus[i + 1] = CpuInner_set(@, raw)],
                               rest, first, vendors_brands)
                      ELSE refresh_lines(self, rest, first, vendors_brands)

\* no rate limit
need_always(last) == TRUE

\* `last_update.map(|l| l.elapsed() >= MINIMUM_CPU_UPDATE_INTERVAL).unwrap_or(true)`
need_cpu_usage_update(last) ==
    IF last = None THEN TRUE ELSE Unwrap(last) >= MINIMUM_CPU_UPDATE_INTERVAL

\* a failed read counts as a line of zero counters
unwrap_or_zeros(read) ==
    IF read = None
    THEN <<[name |-> GlobalName, user |-> 0, nice |-> 0, system |-> 0, idle |-> 0, irq |-> 0]>>
    ELSE Unwrap(read)

\* fs::read_to_string(..).unwrap_or_default()
unwrap_or_default(read) == IF read = None THEN <<>> ELSE Unwrap(read)

\* the first pass overrides the rate limit as well
refresh_first_always(self, read, cpu_file, refresh_kind) ==
    LET need           == need_cpu_usage_update(self.last_update)
        first          == self.cpus = <<>>
        vendors_brands == IF first THEN get_vendor_id_and_brand(cpu_file) ELSE <<>>
    IN  IF first \/ (need /\ refresh_kind.cpu_usage)
        THEN LET r == refresh_lines(self, unwrap_or_default(read), first, vendors_brands)
             IN  [r EXCEPT !.last_update = Some(0)]
        ELSE self

\* CpusWrapper::refresh(only_update_global_cpu, refresh_kind): `read` is what
\* reading /scheme/sys/stat gives (None: an error), cpu_file what reading
\* /scheme/sys/cpu gives.  only_update_global_cpu is never read and
\* refresh_kind.frequency() guards an empty block.
refresh(self, read, cpu_file, refresh_kind) ==
    LET need           == need_cpu_usage_update(self.last_update)
        first          == self.cpus = <<>>
        vendors_brands == IF first THEN get_vendor_id_and_brand(cpu_file) ELSE <<>>
    IN  IF need /\ (first \/ refresh_kind.cpu_usage)
        THEN LET r == refresh_lines(self, unwrap_or_default(read), first, vendors_brands)
             IN  [r EXCEPT !.last_update = Some(0)]
        ELSE self

(***************************************************************************)
(* Inputs of the manager specification.                                    *)
(***************************************************************************)
LineNames ==
    {GlobalName, BadCoreName, OtherName} \cup {CoreName(i) : i \in 0..MaxCoreIndex}

\* the orders in which at most MaxLines line names can stand in the text
Layouts == SeqsOf(LineNames, MaxLines)

\* the text shown when the user counter is t: the line at position j has been
\* idle for j ticks
stat_text(names, t) ==
    [j \in DOMAIN names |->
        [name |-> names[j], user |-> t, nice |-> 0, system |-> 0, idle |-> j, irq |-> 0]]

\* the contents /scheme/sys/cpu can have
CpuFiles ==
    {None} \cup {Some([count |-> c, vendor |-> "GenuineIntel", model |-> "QEMU"]) :
                    c \in {None, Some(MaxCoreIndex + 1)}}

\* CpuRefreshKind, by what refresh reads of it: cpu_usage().  frequency() only
\* guards an empty block.
RefreshKinds == [cpu_usage : BOOLEAN]

Elapse(age) ==
    IF age = None THEN None
    ELSE Some(IF Unwrap(age) < MINIMUM_CPU_UPDATE_INTERVAL THEN Unwrap(age) + 1
              ELSE MINIMUM_CPU_UPDATE_INTERVAL)

(***************************************************************************)
(* Specification SpecCpus: a CpusWrapper under refresh calls, while time   *)
(* passes and the counters of the source change.  Elapsed times are        *)
(* counted in ticks up to MINIMUM_CPU_UPDATE_INTERVAL ("at least the       *)
(* interval").                                                             *)
(***************************************************************************)
InitCpus ==
    /\ global_cpu = CpusWrapper_new.global_cpu
    /\ cpus = CpusWrapper_new.cpus
    /\ last_update = CpusWrapper_new.last_update
    /\ last_call = None
    /\ layout \in Layouts
    /\ tick = 0
    /\ looked_up = FALSE
    /\ lookup_now = FALSE
    /\ cpuAct = "none"
    /\ UsageIdle
    /\ GuardIdle
    /\ ProcIdle
    /\ panicked = FALSE

Refresh ==
    \E refresh_kind \in RefreshKinds,
       cpu_file \in (IF cpus = <<>> THEN CpuFiles ELSE {None}),
       readable \in (IF need_cpu_usage_update(last_update) THEN BOOLEAN ELSE {TRUE}) :
        LET self == [global_cpu |-> global_cpu, cpus |-> cpus, last_update |-> last_update]
            read == IF readable THEN Some(stat_text(layout, tick)) ELSE None
            r    == refresh(self, read, cpu_file, refresh_kind)
        IN  /\ global_cpu' = r.global_cpu
            /\ cpus' = r.cpus
            /\ last_update' = r.last_update
            /\ last_call' = Some(0)
            /\ looked_up' = (looked_up \/ cpus = <<>>)
            /\ lookup_now' = (cpus = <<>>)
            /\ cpuAct' = IF need_cpu_usage_update(last_update)
                            /\ (cpus = <<>> \/ refresh_kind.cpu_usage)
                         THEN (IF readable THEN "read" ELSE "failed") ELSE "skipped"
            /\ UNCHANGED <<layout, tick, usageVars, guardVars, procVars, panicked>>

\* a clock tick
TimePasses ==
    /\ last_call # None
    /\ Elapse(last_call) # last_call \/ Elapse(last_update) # last_update
    /\ last_update' = Elapse(last_update)
    /\ last_call' = Elapse(last_call)
    /\ cpuAct' = "none"
    /\ lookup_now' = FALSE
    /\ UNCHANGED <<global_cpu, cpus, layout, tick, looked_up,
                   usageVars, guardVars, procVars, panicked>>

\* the counters of the source move (forwards, or backwards after a reset)
SourceChanges ==
    \E t \in 0..MaxTick :
        /\ t # tick
        /\ tick' = t
        /\ cpuAct' = "none"
        /\ lookup_now' = FALSE
        /\ UNCHANGED <<global_cpu, cpus, last_update, last_call, layout, looked_up,
                       usageVars, guardVars, procVars, panicked>>

NextCpus == Refresh \/ TimePasses \/ SourceChanges

SpecCpus == InitCpus /\ [][NextCpus]_vars

(***************************************************************************)
(* Claims on the manager.                                                  *)
(***************************************************************************)
\* the global accumulator and the accumulator of every Core Entity
Accumulators == <<global_cpu, [i \in DOMAIN cpus |-> cpus[i].usage]>>

\* C5 (as the code has it): a refresh call made less than
\* MINIMUM_CPU_UPDATE_INTERVAL after the last pass that read the source
\* (last_update) changes neither the global accumulator nor any Core Entity's
\* accumulator, whatever the source shows.
C5_RateLimitedSinceUpdate ==
    [][(/\ last_call' = Some(0)
        /\ last_update # None
        /\ Unwrap(last_update) < MINIMUM_CPU_UPDATE_INTERVAL)
          => Accumulators' = Accumulators]_vars

\* a call skipped right after a pass that read the source, while the source
\* shows other counters than the accumulators hold
C5_Witness ==
    /\ cpuAct = "skipped"
    /\ last_call = Some(0)
    /\ last_update = Some(0)
    /\ cpus # <<>>
    /\ global_cpu.new_values.user # tick
    /\ \E j \in DOMAIN layout : layout[j].is_cpu

\* C5 as stated: a refresh call made less than MINIMUM_CPU_UPDATE_INTERVAL
\* after the previous refresh call changes no accumulator.
C5_RateLimitedSinceCall ==
    [][(/\ last_call' = Some(0)
        /\ last_call # None
        /\ Unwrap(last_call) < MINIMUM_CPU_UPDATE_INTERVAL)
          => Accumulators' = Accumulators]_vars

\* a step that is a call of refresh: the time since the last call is zero
\* afterwards and the source has not moved
RefreshCall == last_call' = Some(0) /\ tick' = tick

\* the positions of the lines of the text that carry the name `name`
LinesNamed(name) == {j \in DOMAIN layout : layout[j] = name}

\* no two lines of the text carry the same per-core name
DistinctCoreLines ==
    \A j, k \in DOMAIN layout :
        (layout[j] = layout[k] /\ layout[j].index # None) => j = k

\* C18: on every pass after the first, the counters of the per-core line named
\* cpu<i> are applied to the Core Entity created from the line cpu<i> (the
\* entity of that name) and to no other entity, whatever the order of the
\* per-core lines and whatever gaps their indices had in the first pass.
C18_LineUpdatesNamedEntity ==
    [][(/\ RefreshCall
        /\ cpuAct' = "read"
        /\ cpus # <<>>
        /\ DistinctCoreLines)
          => /\ DOMAIN cpus' = DOMAIN cpus
             /\ \A k \in DOMAIN cpus :
                   \A j \in LinesNamed(cpus[k].name) :
                       cpus'[k] = CpuInner_set(cpus[k], raw_of(stat_text(layout, tick)[j]))]_vars

\* C22: over the lifetime of one CpusWrapper and any sequence of refresh calls
\* (rate-limited passes, passes whose source is unreadable and passes that find
\* no per-core line included) get_vendor_id_and_brand is performed at most once.
C22_LookupAtMostOnce == [][lookup_now' => ~looked_up]_vars

\* the fields of a Core Entity other than its Usage Accumulator
Identity(cpu) == <<cpu.name, cpu.vendor_id, cpu.brand, cpu.frequency>>

\* C26: Core Entities are created only in a pass made while the manager has no
\* entity; once the manager is populated no later refresh adds, removes or
\* reorders Core Entities, and no refresh changes an existing entity's name,
\* vendor id, brand or frequency (frequency stays 0): only the entity's Usage
\* Accumulator changes.
C26_IdentityIsFixed ==
    [][/\ cpus # <<>> =>
             /\ DOMAIN cpus' = DOMAIN cpus
             /\ \A k \in DOMAIN cpus : Identity(cpus'[k]) = Identity(cpus[k])
       /\ \A k \in DOMAIN cpus' : cpus'[k].frequency = 0]_vars

\* a pass on a populated manager that has updated the accumulator of an entity
\* with a vendor id and a brand
C26_Witness ==
    /\ cpuAct = "read"
    /\ ~lookup_now
    /\ Len(cpus) >= 2
    /\ cpus[1].vendor_id = "GenuineIntel"
    /\ cpus[1].brand = "QEMU"
    /\ cpus[1].usage.old_values # CpuValues_default
    /\ cpus[1].usage.new_values # cpus[1].usage.old_values

\* C23: last_update is advanced only by a pass that successfully read the raw
\* source and updated usage data; a pass in which the source could not be read
\* leaves last_update unchanged, so it does not rate-limit the next pass.
C23_FailedReadKeepsLastUpdate ==
    [][(RefreshCall /\ cpuAct' # "read") => last_update' = last_update]_vars

\* less than MINIMUM_CPU_UPDATE_INTERVAL has elapsed since the previous update
TooClose ==
    last_update # None /\ Unwrap(last_update) < MINIMUM_CPU_UPDATE_INTERVAL

\* the per-core lines of the text
CoreLines == {j \in DOMAIN layout : layout[j].index # None}

\* C19 (as the code has it): a refresh pass skips reading the source whenever
\* less than MINIMUM_CPU_UPDATE_INTERVAL has elapsed since the previous update,
\* also while no Core Entity exists; a pass on a manager without Core Entities
\* made when no update has happened yet, or at least the interval after the
\* previous one, reads the source and ingests it whatever the refresh kind.
C19_SkipsWheneverTooClose ==
    [][RefreshCall
          => /\ TooClose => /\ cpuAct' = "skipped"
                            /\ UNCHANGED <<global_cpu, cpus, last_update>>
             /\ (~TooClose /\ cpus = <<>>)
                   => /\ cpuAct' # "skipped"
                      /\ last_update' = Some(0)
                      /\ cpuAct' = "read" => Len(cpus') = Cardinality(CoreLines)]_vars

\* a pass skipped while no Core Entity exists, after a pass that read a text
\* with a global line and no per-core line
C19_Witness ==
    /\ cpuAct = "skipped"
    /\ cpus = <<>>
    /\ last_update # None
    /\ CoreLines = {}
    /\ GlobalName \in {layout[j] : j \in DOMAIN layout}
    /\ global_cpu # CpuUsage_default

\* C19 as claimed: a pass skips reading the source only when both less than
\* MINIMUM_CPU_UPDATE_INTERVAL has elapsed since the previous update and it is
\* not the first pass (a Core Entity exists).
C19_SkipsOnlyWhenNotFirst ==
    [][(RefreshCall /\ cpuAct' = "skipped") => (TooClose /\ cpus # <<>>)]_vars

(***************************************************************************)
(* FileCounter (Scarce-Resource Guard), process.rs                         *)
(*                                                                         *)
(* FileCounter::new runs AtomicUsize::fetch_update: a load, then a         *)
(* compare-exchange retried with the value it returns for as long as the   *)
(* closure yields Some.  The closure and the construction of the guard are *)
(* thread-local, so each atomic access is one step, together with the      *)
(* local computation that follows it.                                      *)
(***************************************************************************)
\* a closure that decrements whatever it reads
fetch_update_always(r) == Some(r - 1)

\* the closure given to fetch_update: the value to store, or None
fetch_update_fn(r) == IF r > 0 THEN Some(r - 1) ELSE None

\* a store that does not compare
store_unconditionally(current, expected, new) == [ok |-> TRUE, value |-> new]

\* compare_exchange(expected, new) on the counter holding `current`: whether
\* it succeeds and the value the counter holds afterwards
compare_exchange(current, expected, new) ==
    IF current = expected THEN [ok |-> TRUE, value |-> new]
    ELSE [ok |-> FALSE, value |-> current]

\* a drop that gives nothing back
FileCounter_drop_none(r) == r

\* Drop for FileCounter: fetch_add(1)
FileCounter_drop(r) == r + 1

Record(e) == Append(log, e)

\* after reading the value r inside fetch_update, thread t either gives up
\* (the closure returned None: FileCounter::new returns None) or goes on to
\* the compare-exchange
AfterRead(t, r) ==
    IF fetch_update_fn(r) = None
    THEN /\ pc' = [pc EXCEPT ![t] = "idle"]
         /\ prev' = [prev EXCEPT ![t] = 0]
         /\ log' = Record("none")
    ELSE /\ pc' = [pc EXCEPT ![t] = "cas"]
         /\ prev' = [prev EXCEPT ![t] = r]
         /\ log' = log

\* FileCounter::new, first access: the load of fetch_update
NewLoad(t) ==
    /\ pc[t] = "idle"
    /\ Len(log) < MaxLog
    /\ AfterRead(t, remaining)
    /\ UNCHANGED <<remaining, held, contended, slotVars, usageVars, procVars, panicked, cpuVars>>

\* FileCounter::new, the compare-exchange: on success the guard exists
NewCas(t) ==
    /\ pc[t] = "cas"
    /\ LET cas == compare_exchange(remaining, prev[t], Unwrap(fetch_update_fn(prev[t])))
       IN  /\ remaining' = cas.value
           /\ IF cas.ok
              THEN /\ pc' = [pc EXCEPT ![t] = "idle"]
                   /\ prev' = [prev EXCEPT ![t] = 0]
                   /\ held' = [held EXCEPT ![t] = @ + 1]
                   /\ log' = Record("ok")
                   /\ UNCHANGED contended
              ELSE /\ AfterRead(t, remaining)
                   /\ contended' = TRUE
                   /\ UNCHANGED held
    /\ UNCHANGED <<slotVars, usageVars, procVars, panicked, cpuVars>>

\* compare_exchange_weak may fail although the value matches; the loop retries
NewCasSpurious(t) ==
    /\ pc[t] = "cas"
    /\ remaining = prev[t]
    /\ UNCHANGED vars

\* a guard owned by thread t goes out of scope
Drop(t) ==
    /\ held[t] > 0
    /\ Len(log) < MaxLog
    /\ remaining' = FileCounter_drop(remaining)
    /\ held' = [held EXCEPT ![t] = @ - 1]
    /\ log' = Record("drop")
    /\ UNCHANGED <<pc, prev, contended, slotVars, usageVars, procVars, panicked, cpuVars>>

InitGuard ==
    /\ GuardIdle
    /\ CpuIdle
    /\ UsageIdle
    /\ ProcIdle
    /\ panicked = FALSE

NextGuard ==
    \E t \in Threads :
        \/ NewLoad(t)
        \/ NewCas(t)
        \/ NewCasSpurious(t)
        \/ Drop(t)

SpecGuard == InitGuard /\ [][NextGuard]_vars

(***************************************************************************)
(* Claims on FileCounter.                                                  *)
(***************************************************************************)
RECURSIVE SumHeld(_)
SumHeld(ts) ==
    IF ts = {} THEN 0
    ELSE LET t == CHOOSE x \in ts : TRUE IN held[t] + SumHeld(ts \ {t})

LiveGuards == SumHeld(Threads)

Count(e) == Cardinality({i \in 1..Len(log) : log[i] = e})

\* C2: (remaining budget) + (live guards) = initial budget in every reachable
\* state; so the counter is back at the initial budget once no guard is live.
C2_BudgetConserved ==
    /\ remaining + LiveGuards = Budget
    /\ (LiveGuards = 0 => remaining = Budget)

\* every guard that was acquired has been dropped again
C2_Witness ==
    /\ Count("ok") = Budget
    /\ Count("drop") = Budget
    /\ LiveGuards = 0
    /\ remaining = Budget

\* the counter value after the events log[1..k], starting from the budget
RECURSIVE CounterAfter(_)
CounterAfter(k) ==
    IF k = 0 THEN Budget
    ELSE CASE log[k] = "ok"   -> CounterAfter(k - 1) - 1
           [] log[k] = "drop" -> CounterAfter(k - 1) + 1
           [] OTHER           -> CounterAfter(k - 1)

\* C3: FileCounter::new succeeds, taking exactly one from the counter, if and
\* only if the counter is > 0 at that moment, and returns None leaving the
\* counter unchanged when it is 0; so without a release the attempts give
\* Budget successes followed by failures, and an attempt right after a release
\* succeeds.
C3_NewIffPositive ==
    /\ \A k \in 1..Len(log) :
          /\ (log[k] = "ok" => CounterAfter(k - 1) > 0)
          /\ (log[k] = "none" => CounterAfter(k - 1) = 0)
          /\ (k > 1 /\ log[k - 1] = "drop" /\ log[k] # "drop" => log[k] = "ok")
    /\ remaining = CounterAfter(Len(log))
    /\ (Count("drop") = 0 =>
          /\ \A k \in 1..Len(log) : log[k] = (IF k <= Budget THEN "ok" ELSE "none"))

\* the scenario: Budget successes, a failure, a release, a success
C3_Witness ==
    /\ Len(log) = Budget + 3
    /\ \A k \in 1..Budget : log[k] = "ok"
    /\ log[Budget + 1] = "none"
    /\ log[Budget + 2] = "drop"
    /\ log[Budget + 3] = "ok"
    /\ remaining = 0

\* C4: under every interleaving of acquisitions (load, then compare-exchange,
\* retried) and drops by several threads, the live guards never exceed the
\* budget, no slot is consumed twice and the counter never drops below zero.
C4_ConcurrentBudget ==
    /\ remaining \in 0..Budget
    /\ LiveGuards <= Budget
    /\ Count("ok") - Count("drop") = Budget - remaining
    /\ \A t \in Threads : pc[t] = "cas" => prev[t] > 0

\* two threads raced for the counter, one compare-exchange lost, and both ended
\* up with a guard
C4_Witness ==
    /\ contended
    /\ \A t \in Threads : held[t] > 0
    /\ LiveGuards = Budget
    /\ remaining = 0

(***************************************************************************)
(* Byte counts.  memory and virtual_memory reach n * 1024 * 1024 * 1024,   *)
(* beyond the integers of the model checker, so a u64 byte count b is kept *)
(* exactly as the pair gib = b div 2^30, rem = b mod 2^30.                 *)
(***************************************************************************)
u64_bytes(n) ==
    [gib |-> n \div (1024 * 1024 * 1024), rem |-> n % (1024 * 1024 * 1024)]

\* decimal units
mul_1000(b) ==
    [gib |-> b.gib * 1000 + (b.rem * 1000) \div (1024 * 1024 * 1024),
     rem |-> (b.rem * 1000) % (1024 * 1024 * 1024)]

\* `mem *= 1024` (the factors 1024 * 1024 and 1024 * 1024 * 1024 of
\* refresh_procs are this one applied two and three times)
mul_1024(b) ==
    [gib |-> b.gib * 1024 + b.rem \div (1024 * 1024),
     rem |-> (b.rem % (1024 * 1024)) * 1024]

(***************************************************************************)
(* ProcessInner (Process Entity), process.rs                               *)
(*                                                                         *)
(* The fields that no code of this backend writes after ProcessInner::new  *)
(* (cmd, exe, environ, cwd, root, parent, the start times, run_time,       *)
(* tasks, stat_file, proc_path, accumulated_cpu_time) are left out.        *)
(***************************************************************************)
ProcessInner_new(pid) ==
    [name               |-> "",
     pid                |-> pid,
     memory             |-> u64_bytes(0),
     virtual_memory     |-> u64_bytes(0),
     cpu_usage          |-> Ratio(0, 1),
     utime              |-> 0,
     stime              |-> 0,
     old_utime          |-> 0,
     old_stime          |-> 0,
     updated            |-> TRUE,
     user_id            |-> None,
     effective_user_id  |-> None,
     group_id           |-> None,
     effective_group_id |-> None,
     status             |-> <<"Unknown", 0>>,
     old_read_bytes     |-> 0,
     old_written_bytes  |-> 0,
     read_bytes         |-> 0,
     written_bytes      |-> 0,
     thread_kind        |-> None,
     exists             |-> TRUE]

\* the user time is shifted, the system time is not
set_time_half(p, utime, stime) ==
    [p EXCEPT !.old_utime = p.utime,
              !.utime = utime,
              !.stime = stime]

\* set_time
set_time(p, utime, stime) ==
    [p EXCEPT !.old_utime = p.utime,
              !.old_stime = p.stime,
              !.utime = utime,
              !.stime = stime]

\* no early return
no_reference_never(p) == FALSE

\* the early return of compute_cpu_usage: no reference sample yet
no_reference(p) == p.old_utime = 0 /\ p.old_stime = 0

\* no cap
cap_usage_none(x, max) == x

\* `.min(max_value)` of compute_cpu_usage
cap_usage(x, max) == RatMin(x, max)

\* compute_cpu_usage; its argument total_time (> 0) and max_value are whole numbers here
compute_cpu_usage(p, total, max) ==
    IF no_reference(p) THEN p
    ELSE [p EXCEPT !.cpu_usage =
            cap_usage(
                Ratio(saturating_add(saturating_sub(p.utime, p.old_utime),
                                     saturating_sub(p.stime, p.old_stime)) * 100,
                      total),
                Ratio(max, 1))]

\* a - b on u64 without the saturation
wrapping_sub(a, b) == (a - b) % (U64_MAX + 1)

\* deltas that wrap below zero
disk_usage_wrapping(p) ==
    [written_bytes       |-> wrapping_sub(p.written_bytes, p.old_written_bytes),
     total_written_bytes |-> p.written_bytes,
     read_bytes          |-> wrapping_sub(p.read_bytes, p.old_read_bytes),
     total_read_bytes    |-> p.read_bytes]

\* ProcessInner::disk_usage(&self): the DiskUsage returned
disk_usage(p) ==
    [written_bytes       |-> saturating_sub(p.written_bytes, p.old_written_bytes),
     total_written_bytes |-> p.written_bytes,
     read_bytes          |-> saturating_sub(p.read_bytes, p.old_read_bytes),
     total_read_bytes    |-> p.read_bytes]

\* ProcessInner::switch_updated: the entity afterwards (it returns p.updated)
switch_updated(p) == [p EXCEPT !.updated = FALSE]

\* ProcessInner::set_nonexistent
set_nonexistent(p) == [p EXCEPT !.exists = FALSE]

\* impl From<char> for ProcessStatus
ProcessStatus_from(c) ==
    CASE c = "R" -> <<"Run">>
      [] c \in {"B", "S"} -> <<"Sleep">>
      [] c = "I" -> <<"Idle">>
      [] c = "D" -> <<"UninterruptibleDiskSleep">>
      [] c = "Z" -> <<"Zombie">>
      [] c = "T" -> <<"Stop">>
      [] c = "t" -> <<"Tracing">>
      [] c \in {"X", "x"} -> <<"Dead">>
      [] c = "K" -> <<"Wakekill">>
      [] c = "W" -> <<"Waking">>
      [] c = "P" -> <<"Parked">>
      [] OTHER -> <<"Unknown", c>>

(***************************************************************************)
(* refresh_procs.  A line of the enumeration is modelled by what the       *)
(* function reads of it:                                                   *)
(*   len    "lt6"  : shorter than 6 bytes (line[0..6] is out of range)     *)
(*          "lt67" : at least 6 bytes but shorter than the last column     *)
(*          "full" : every fixed column is present                         *)
(*   pid, euid, egid, cpu, hh, mm, ss, cc, mem : the column parsed as a    *)
(*          number, None when it does not parse                            *)
(*   stat   the characters of the STAT column, suffix the unit after the   *)
(*          memory value, name the rest of the line                        *)
(***************************************************************************)
parse_or_default(field) == IF field = None THEN 0 ELSE Unwrap(field)

\* the TIME column HH:MM:SS.CC in milliseconds
parse_time(line) ==
    parse_or_default(line.hh) * 3600 * 1000
      + parse_or_default(line.mm) * 60 * 1000
      + parse_or_default(line.ss) * 1000
      + parse_or_default(line.cc) * 10

\* the MEM column: value and unit
parse_mem(line) ==
    LET mem == u64_bytes(parse_or_default(line.mem))
    IN  CASE line.suffix = "B"  -> mem
          [] line.suffix = "KB" -> mul_1024(mem)
          [] line.suffix = "MB" -> mul_1024(mul_1024(mem))
          [] line.suffix = "GB" -> mul_1024(mul_1024(mul_1024(mem)))
          [] OTHER              -> mem

\* ProcessesToUpdate: [all |-> TRUE] is All, [all |-> FALSE, pids |-> S] is Some(S)
Selected(selector, pid) == selector.all \/ pid \in selector.pids

\* a map rebuilt around the one entry
entry_alone(list, pid) ==
    [q \in {pid} |-> IF pid \in DOMAIN list THEN list[pid] ELSE ProcessInner_new(pid)]

\* proc_list.entry(pid).or_insert_with(|| Process { inner: ProcessInner::new(..) })
entry_or_insert(list, pid) ==
    IF pid \in DOMAIN list THEN list
    ELSE [q \in DOMAIN list \cup {pid} |->
            IF q = pid THEN ProcessInner_new(pid) ELSE list[q]]

\* the assignments refresh_procs makes to the entity found or created
update_entity(p, line) ==
    LET euid   == parse_or_default(line.euid)
        egid   == parse_or_default(line.egid)
        kind   == IF Len(line.stat) >= 1 THEN line.stat[1] ELSE "NUL"
        status == IF Len(line.stat) >= 2 THEN line.stat[2] ELSE "NUL"
        mem    == parse_mem(line)
    IN  set_time(
            [p EXCEPT !.name = line.name,
                      !.memory = mem,
                      !.virtual_memory = mem,
                      !.user_id = Some(euid),
                      !.effective_user_id = Some(euid),
                      !.group_id = Some(egid),
                      !.effective_group_id = Some(egid),
                      !.status = ProcessStatus_from(status),
                      !.thread_kind =
                          Some(IF kind = "U" THEN "Userland" ELSE "Kernel")],
            parse_time(line), 0)

\* the upsert of one record
upsert(list, pid, line) ==
    LET l == entry_or_insert(list, pid)
    IN  [l EXCEPT ![pid] = update_entity(l[pid], line)]

\* the loop of refresh_procs over the records `lines`, from the state
\* st = [list, nb_updated, panic]; a slice out of range panics and unwinds,
\* leaving the map as the earlier records made it
RECURSIVE refresh_loop(_, _, _)
refresh_loop(st, lines, selector) ==
    IF lines = <<>> THEN st
    ELSE LET line == Head(lines)
             rest == Tail(lines)
         IN  IF line.len = "lt6" THEN [st EXCEPT !.panic = TRUE]
             ELSE IF line.pid = None THEN refresh_loop(st, rest, selector)
             ELSE IF ~Selected(selector, Unwrap(line.pid))
                  THEN refresh_loop(st, rest, selector)
             ELSE IF line.len # "full" THEN [st EXCEPT !.panic = TRUE]
             ELSE refresh_loop(
                      [st EXCEPT !.list = upsert(st.list, Unwrap(line.pid), line),
                                 !.nb_updated = st.nb_updated + 1],
                      rest, selector)

\* `.lines().skip(1)` of the text read, "" when the read failed
records_of(read) == IF read = None \/ Unwrap(read) = <<>> THEN <<>> ELSE Tail(Unwrap(read))

\* refresh_procs(proc_list, .., processes_to_update, ..) on the text `read`
\* (None: the source could not be read)
refresh_procs(list, read, selector) ==
    refresh_loop([list |-> list, nb_updated |-> 0, panic |-> FALSE],
                 records_of(read), selector)

(***************************************************************************)
(* Inputs of the process specifications.                                   *)
(***************************************************************************)
FullLine(pid, cc) ==
    [len |-> "full", pid |-> pid, euid |-> Some(0), egid |-> Some(0),
     stat |-> <<"U", "B">>, cpu |-> Some(0),
     hh |-> Some(0), mm |-> Some(0), ss |-> Some(0), cc |-> Some(cc),
     mem |-> Some(1), suffix |-> "KB", name |-> "init"]

\* a line cut short: only the pid column is there
ShortLine(len, pid) ==
    [len |-> len, pid |-> pid, euid |-> None, egid |-> None,
     stat |-> <<>>, cpu |-> None,
     hh |-> None, mm |-> None, ss |-> None, cc |-> None,
     mem |-> None, suffix |-> "", name |-> ""]

HeaderLine == [FullLine(None, 0) EXCEPT !.cc = None, !.mem = None, !.suffix = "NAME",
                                        !.stat = <<"S", "T", "A", "T">>, !.name = ""]

\* the records a text can hold: a well-formed record per pid (process pid has
\* accumulated pid - 1 centiseconds), a record whose pid column does not parse,
\* and two records cut short
RecordLines ==
    {FullLine(Some(pid), pid - 1) : pid \in Pids}
        \cup {FullLine(None, 0), ShortLine("lt6", None), ShortLine("lt67", Some(1))}

\* the texts of the process source: empty, or a header and at most MaxRecords records
Enumerations == {<<>>} \cup {<<HeaderLine>> \o recs : recs \in SeqsOf(RecordLines, MaxRecords)}

Selectors == {[all |-> TRUE, pids |-> {}]} \cup {[all |-> FALSE, pids |-> S] : S \in SUBSET Pids}

Bump(n) == IF n < 2 THEN n + 1 ELSE 2

\* per pid, the number of records of `lines` the loop upserts before it ends
RECURSIVE Upserts(_, _, _)
Upserts(lines, selector, pid) ==
    IF lines = <<>> THEN 0
    ELSE LET line == Head(lines)
         IN  IF line.len = "lt6" THEN 0
             ELSE IF line.pid = None \/ ~Selected(selector, Unwrap(line.pid))
                  THEN Upserts(Tail(lines), selector, pid)
             ELSE IF line.len # "full" THEN 0
             ELSE (IF Unwrap(line.pid) = pid THEN 1 ELSE 0)
                      + Upserts(Tail(lines), selector, pid)

(***************************************************************************)
(* Specification SpecProcs: the entity map under refresh_procs passes over *)
(* the text the source shows, the caller's switch_updated and              *)
(* set_nonexistent, and processes leaving the enumeration.                 *)
(***************************************************************************)
InitProcs ==
    /\ proc_list = <<>>
    /\ enumeration \in Enumerations
    /\ max_value = 0
    /\ nset = <<>>
    /\ touched = {}
    /\ time_args = None
    /\ read_failed = FALSE
    /\ chosen = None
    /\ lastAct = "none"
    /\ ret = None
    /\ UsageIdle
    /\ CpuIdle
    /\ GuardIdle
    /\ panicked = FALSE

\* one refresh_procs pass; the source may fail to be read
RefreshProcsWith(selector, readable) ==
        LET read == IF readable THEN Some(enumeration) ELSE None
            r    == refresh_procs(proc_list, read, selector)
        IN  /\ ~panicked
            /\ proc_list' = r.list
            /\ ret' = IF r.panic THEN None ELSE Some(r.nb_updated)
            /\ panicked' = r.panic
            /\ nset' = [q \in DOMAIN r.list |->
                          LET n == Upserts(records_of(read), selector, q)
                              m == IF q \in DOMAIN nset THEN nset[q] ELSE 0
                          IN  IF n = 0 THEN m ELSE IF n = 1 THEN Bump(m) ELSE 2]
            /\ touched' = {q \in DOMAIN r.list : Upserts(records_of(read), selector, q) > 0}
            /\ UNCHANGED time_args
            /\ read_failed' = ~readable
            /\ lastAct' = "refresh_procs"
            /\ UNCHANGED <<enumeration, max_value, usageVars, guardVars, cpuVars>>

RefreshProcs ==
    \E selector \in Selectors, readable \in BOOLEAN :
        RefreshProcsWith(selector, readable) /\ UNCHANGED chosen

\* the caller's sweep: switch_updated on every entity of the map
SwitchUpdated ==
    /\ ~panicked
    /\ proc_list # <<>>
    /\ proc_list' = [pid \in DOMAIN proc_list |-> switch_updated(proc_list[pid])]
    /\ lastAct' = "switch_updated"
    /\ ret' = None
    /\ touched' = {}
    /\ read_failed' = FALSE
    /\ UNCHANGED <<chosen, enumeration, max_value, nset, time_args, usageVars, guardVars, panicked, cpuVars>>

\* the caller marks an entity as gone
SetNonexistent ==
    \E pid \in DOMAIN proc_list :
        /\ ~panicked
        /\ proc_list' = [proc_list EXCEPT ![pid] = set_nonexistent(@)]
        /\ lastAct' = "set_nonexistent"
        /\ ret' = None
        /\ touched' = {}
        /\ read_failed' = FALSE
        /\ UNCHANGED <<chosen, enumeration, max_value, nset, time_args, usageVars, guardVars, panicked, cpuVars>>

\* the process listed last ends: its record leaves the text the source shows
ProcessExits ==
    /\ ~panicked
    /\ Len(enumeration) >= 2
    /\ enumeration' = SubSeq(enumeration, 1, Len(enumeration) - 1)
    /\ lastAct' = "process_exits"
    /\ chosen' = None
    /\ ret' = None
    /\ touched' = {}
    /\ read_failed' = FALSE
    /\ UNCHANGED <<proc_list, max_value, nset, time_args, usageVars, guardVars, panicked, cpuVars>>

NextProcs == RefreshProcs \/ SwitchUpdated \/ SetNonexistent \/ ProcessExits

SpecProcs == InitProcs /\ [][NextProcs]_vars

(***************************************************************************)
(* Specification SpecProcTime: one newly created Process Entity under      *)
(* set_time and compute_cpu_usage with arbitrary arguments and a fixed     *)
(* max_value.                                                              *)
(***************************************************************************)
InitProcTime ==
    /\ proc_list = [pid \in {1} |-> ProcessInner_new(pid)]
    /\ enumeration = <<>>
    /\ max_value \in {100 * k : k \in -1..MaxCores}
    /\ nset = [pid \in {1} |-> 0]
    /\ touched = {}
    /\ time_args = None
    /\ read_failed = FALSE
    /\ chosen = None
    /\ lastAct = "new"
    /\ ret = None
    /\ UsageIdle
    /\ CpuIdle
    /\ GuardIdle
    /\ panicked = FALSE

SetTime ==
    \E utime \in 0..MaxTime, stime \in 0..MaxTime :
        /\ proc_list' = [proc_list EXCEPT ![1] = set_time(@, utime, stime)]
        /\ nset' = [nset EXCEPT ![1] = Bump(@)]
        /\ UNCHANGED touched
        /\ time_args' = Some(<<utime, stime>>)
        /\ UNCHANGED read_failed
        /\ lastAct' = "set_time"
        /\ UNCHANGED <<chosen, enumeration, max_value, ret, usageVars, guardVars, panicked, cpuVars>>

ComputeCpuUsage ==
    \E elapsed \in 1..MaxElapsed :
        /\ proc_list' = [proc_list EXCEPT ![1] = compute_cpu_usage(@, elapsed, max_value)]
        /\ lastAct' = "compute_cpu_usage"
        /\ UNCHANGED <<chosen, enumeration, max_value, nset, touched, time_args, read_failed, ret, usageVars, guardVars, panicked, cpuVars>>

NextProcTime == SetTime \/ ComputeCpuUsage

SpecProcTime == InitProcTime /\ [][NextProcTime]_vars

(***************************************************************************)
(* Specification SpecProcMem: refresh_procs passes over a text with one    *)
(* record, of process 1, whose MEM column (value and unit) changes between *)
(* the passes.                                                             *)
(***************************************************************************)
\* the units after the value: the four known ones, an unknown one, none
Suffixes == {"B", "KB", "MB", "GB", "XB", ""}

MemLine(mem, suffix) == [FullLine(Some(1), 0) EXCEPT !.mem = mem, !.suffix = suffix]

\* the value is a number, or text that does not parse
MemRecords ==
    {MemLine(mem, suffix) :
        mem \in {None} \cup {Some(n) : n \in 0..MaxMem}, suffix \in Suffixes}

InitProcMem ==
    /\ proc_list = <<>>
    /\ enumeration \in {<<HeaderLine, l>> : l \in MemRecords}
    /\ max_value = 0
    /\ nset = <<>>
    /\ touched = {}
    /\ time_args = None
    /\ read_failed = FALSE
    /\ chosen = None
    /\ lastAct = "none"
    /\ ret = None
    /\ UsageIdle
    /\ CpuIdle
    /\ GuardIdle
    /\ panicked = FALSE

\* the process allocates or frees memory: its record shows another MEM column
MemoryChanges ==
    \E l \in MemRecords :
        /\ enumeration # <<HeaderLine, l>>
        /\ enumeration' = <<HeaderLine, l>>
        /\ lastAct' = "memory_changes"
        /\ read_failed' = FALSE
        /\ UNCHANGED <<chosen, proc_list, max_value, nset, touched, time_args, ret,
                       usageVars, guardVars, panicked, cpuVars>>

NextProcMem == RefreshProcs \/ MemoryChanges

SpecProcMem == InitProcMem /\ [][NextProcMem]_vars

(***************************************************************************)
(* Specification SpecDisk: disk_usage called on a Process Entity whose I/O *)
(* counters hold any values (no code of this backend writes them after     *)
(* ProcessInner::new, the fields are pub(crate)).                          *)
(***************************************************************************)
InitDisk ==
    /\ \E r \in 0..MaxBytes, old_r \in 0..MaxBytes, w \in 0..MaxBytes, old_w \in 0..MaxBytes :
           proc_list = [pid \in {1} |->
                          [ProcessInner_new(pid) EXCEPT !.read_bytes = r,
                                                        !.old_read_bytes = old_r,
                                                        !.written_bytes = w,
                                                        !.old_written_bytes = old_w]]
    /\ enumeration = <<>>
    /\ max_value = 0
    /\ nset = [pid \in {1} |-> 0]
    /\ touched = {}
    /\ time_args = None
    /\ read_failed = FALSE
    /\ chosen = None
    /\ lastAct = "new"
    /\ ret = None
    /\ UsageIdle
    /\ CpuIdle
    /\ GuardIdle
    /\ panicked = FALSE

\* disk_usage takes &self: the entity is not written
DiskUsage ==
    /\ ret' = Some(disk_usage(proc_list[1]))
    /\ lastAct' = "disk_usage"
    /\ UNCHANGED <<chosen, proc_list, enumeration, max_value, nset, touched, time_args, read_failed,
                   usageVars, guardVars, panicked, cpuVars>>

NextDisk == DiskUsage

SpecDisk == InitDisk /\ [][NextDisk]_vars

(***************************************************************************)
(* Claims on the process accounting.                                       *)
(***************************************************************************)
\* C6: a newly created Process Entity still has cpu_usage 0 after exactly one
\* set_time followed by compute_cpu_usage, whatever utime, stime, elapsed time
\* and max_value are; cpu_usage is non-zero only after two set_time calls.
C6_FirstSampleWarmUp ==
    \A pid \in DOMAIN proc_list :
        nset[pid] <= 1 => proc_list[pid].cpu_usage = Ratio(0, 1)

\* one set_time with non-zero times, then compute_cpu_usage
C6_Witness ==
    /\ nset[1] = 1
    /\ lastAct = "compute_cpu_usage"
    /\ proc_list[1].utime > 0
    /\ proc_list[1].stime > 0
    /\ proc_list[1].cpu_usage = Ratio(0, 1)

\* after a second set_time the usage does become non-zero
C6_WitnessSecond ==
    /\ nset[1] = 2
    /\ proc_list[1].cpu_usage.n > 0

\* C7: with total_time > 0 and a fixed max_value >= 0, cpu_usage stays within
\* [0, max_value] after any sequence of set_time and compute_cpu_usage calls,
\* also when a new utime or stime is smaller than the previous one.
C7_UsageWithinMax ==
    max_value >= 0 =>
        \A pid \in DOMAIN proc_list :
            /\ proc_list[pid].cpu_usage.d > 0
            /\ proc_list[pid].cpu_usage.n >= 0
            /\ RatLeq(proc_list[pid].cpu_usage, Ratio(max_value, 1))

\* a usage capped at max_value, computed while utime had gone backwards
C7_Witness ==
    /\ lastAct = "compute_cpu_usage"
    /\ max_value > 0
    /\ proc_list[1].utime < proc_list[1].old_utime
    /\ proc_list[1].stime > proc_list[1].old_stime
    /\ proc_list[1].cpu_usage = Ratio(max_value, 1)

\* C10: refresh_procs never removes an entry of the entity map and never changes
\* an entity's exists flag, also for processes absent from the enumeration;
\* exists becomes false only through set_nonexistent.
C10_RefreshNeverRemoves ==
    [][/\ (lastAct' = "refresh_procs" =>
             /\ DOMAIN proc_list \subseteq DOMAIN proc_list'
             /\ \A pid \in DOMAIN proc_list :
                   proc_list'[pid].exists = proc_list[pid].exists)
       /\ \A pid \in DOMAIN proc_list \cap DOMAIN proc_list' :
             (proc_list[pid].exists /\ ~proc_list'[pid].exists)
                 => lastAct' = "set_nonexistent"
       /\ \A pid \in DOMAIN proc_list' \ DOMAIN proc_list : proc_list'[pid].exists
      ]_vars

PidsShown == {Unwrap(enumeration[i].pid) :
                i \in {j \in 2..Len(enumeration) : enumeration[j].pid # None}}

\* a pass that returned, over an enumeration from which a tracked process is absent
C10_Witness ==
    /\ lastAct = "refresh_procs"
    /\ ret # None /\ Unwrap(ret) > 0
    /\ \E pid \in DOMAIN proc_list : pid \notin PidsShown /\ proc_list[pid].exists
    /\ \E pid \in DOMAIN proc_list : ~proc_list[pid].exists

\* the fields of a Process Entity that set_time leaves alone
FrameOfSetTime ==
    DOMAIN ProcessInner_new(1) \ {"utime", "stime", "old_utime", "old_stime"}

\* C16: set_time(p, u, s) sets old_utime and old_stime to the values utime and
\* stime had immediately before the call and sets utime = u and stime = s, both
\* fields of the pair in the same step, and changes no other field of the entity.
C16_SetTimeShiftsPair ==
    [][lastAct' = "set_time"
          => /\ time_args' # None
             /\ proc_list'[1].old_utime = proc_list[1].utime
             /\ proc_list'[1].old_stime = proc_list[1].stime
             /\ proc_list'[1].utime = Unwrap(time_args')[1]
             /\ proc_list'[1].stime = Unwrap(time_args')[2]
             /\ \A f \in FrameOfSetTime : proc_list'[1][f] = proc_list[1][f]]_vars

\* a third set_time on an entity with a computed usage: the four time fields
\* are pairwise different and the usage is still there
C16_Witness ==
    /\ lastAct = "set_time"
    /\ nset[1] >= 2
    /\ time_args = Some(<<proc_list[1].utime, proc_list[1].stime>>)
    /\ proc_list[1].utime # proc_list[1].old_utime
    /\ proc_list[1].stime # proc_list[1].old_stime
    /\ proc_list[1].utime # proc_list[1].stime
    /\ proc_list[1].cpu_usage.n > 0

\* C11: the value returned by refresh_procs equals the number of distinct
\* Process Entities created or updated in that pass, also when the enumeration
\* lists a process id on several records, for both selectors.
C11_ReturnsEntitiesTouched ==
    (lastAct = "refresh_procs" /\ ret # None) => Unwrap(ret) = Cardinality(touched)

\* C12: no parsing of external text panics: refresh_procs completes normally
\* for every enumeration text, also one with records shorter than the columns
\* it slices.
C12_NoParsePanic == ~panicked

\* C17: after every refresh_procs pass every Process Entity touched in that
\* pass has its updated flag set to true, also one whose flag switch_updated
\* cleared after an earlier pass.
C17_TouchedAreUpdated ==
    (lastAct = "refresh_procs" /\ ~panicked)
        => \A pid \in touched : proc_list[pid].updated

\* the (utime, stime) pair an entity holds as a pass begins; an entity the pass
\* creates begins as ProcessInner::new makes it
PairBefore(list, pid) ==
    LET p == IF pid \in DOMAIN list THEN list[pid] ELSE ProcessInner_new(pid)
    IN  <<p.utime, p.stime>>

\* C20: after every refresh_procs pass each touched Process Entity's
\* (old_utime, old_stime) is the (utime, stime) pair it held when the pass
\* began, also when the enumeration has several records with one process id.
C20_OldPairIsPairBeforePass ==
    [][(lastAct' = "refresh_procs" /\ ~panicked')
          => \A pid \in touched' :
                <<proc_list'[pid].old_utime, proc_list'[pid].old_stime>>
                    = PairBefore(proc_list, pid)]_vars

\* n bytes, n * 1024, n * 1024 * 1024 and n * 1024 * 1024 * 1024 as byte counts
ExpectedMemory(n, suffix) ==
    CASE suffix = "B"  -> [gib |-> 0, rem |-> n]
      [] suffix = "KB" -> [gib |-> 0, rem |-> n * 1024]
      [] suffix = "MB" -> [gib |-> 0, rem |-> n * 1024 * 1024]
      [] suffix = "GB" -> [gib |-> n, rem |-> 0]
      [] OTHER         -> [gib |-> 0, rem |-> n]

\* C13: the memory field (value n, unit suffix) yields exactly n for "B",
\* n * 1024 for "KB", n * 1024 * 1024 for "MB", n * 1024 * 1024 * 1024 for "GB"
\* and n unscaled for any other or missing suffix; the record is counted and
\* memory and virtual_memory are both set to the result.
C13_MemoryScaled ==
    (lastAct = "refresh_procs" /\ touched # {})
        => LET line == enumeration[Len(enumeration)]
               n    == IF line.mem = None THEN 0 ELSE Unwrap(line.mem)
           IN  /\ ret = Some(1)
               /\ \A pid \in touched :
                      /\ proc_list[pid].memory = ExpectedMemory(n, line.suffix)
                      /\ proc_list[pid].virtual_memory = ExpectedMemory(n, line.suffix)

\* a record with a value in GB has been upserted after one with an unknown unit
C13_Witness ==
    /\ lastAct = "refresh_procs"
    /\ touched = {1}
    /\ enumeration[2].suffix = "GB"
    /\ enumeration[2].mem = Some(MaxMem)
    /\ proc_list[1].memory.gib = MaxMem
    /\ nset[1] = 2

\* an unknown unit: the value is stored unscaled and the record counted
C13_WitnessUnknown ==
    /\ lastAct = "refresh_procs"
    /\ touched = {1}
    /\ enumeration[2].suffix = "XB"
    /\ ret = Some(1)
    /\ proc_list[1].memory = [gib |-> 0, rem |-> MaxMem]

\* C14: disk_usage modifies no field of the Process Entity; it returns deltas
\* max(current - old, 0) and totals equal to the current counters, the same on
\* every consecutive call; a never-sampled entity yields all zeros.
C14_DiskUsagePure ==
    [][lastAct' = "disk_usage"
          => LET p  == proc_list[1]
                 du == Unwrap(ret')
             IN  /\ proc_list' = proc_list
                 /\ du.read_bytes =
                       (IF p.read_bytes >= p.old_read_bytes
                        THEN p.read_bytes - p.old_read_bytes ELSE 0)
                 /\ du.written_bytes =
                       (IF p.written_bytes >= p.old_written_bytes
                        THEN p.written_bytes - p.old_written_bytes ELSE 0)
                 /\ du.total_read_bytes = p.read_bytes
                 /\ du.total_written_bytes = p.written_bytes
                 /\ (lastAct = "disk_usage" => ret' = ret)
                 /\ (p = ProcessInner_new(1)
                        => du = [written_bytes |-> 0, total_written_bytes |-> 0,
                                 read_bytes |-> 0, total_read_bytes |-> 0])]_vars

\* disk_usage on an entity whose read counter is below the old one
C14_Witness ==
    /\ lastAct = "disk_usage"
    /\ proc_list[1].read_bytes < proc_list[1].old_read_bytes
    /\ proc_list[1].written_bytes > proc_list[1].old_written_bytes
    /\ Unwrap(ret).read_bytes = 0
    /\ Unwrap(ret).written_bytes > 0


\* the usage compute_cpu_usage derives from the current deltas of the entity
UsageFromDeltas(p, total, max) ==
    LET du == IF p.utime > p.old_utime THEN p.utime - p.old_utime ELSE 0
        ds == IF p.stime > p.old_stime THEN p.stime - p.old_stime ELSE 0
    IN  RatMin(Ratio((du + ds) * 100, total), Ratio(max, 1))

\* C21: compute_cpu_usage leaves cpu_usage unchanged exactly when the entity is
\* at its first observed sample (one set_time so far); on every call made after
\* a second or later set_time it recomputes cpu_usage from the current deltas,
\* whatever the sampled values were (also a first sample of utime = 0,
\* stime = 0), so no stale cpu_usage is retained.  (max_value is the number
\* of CPUs times 100: positive.)
C21_RecomputedAfterSecondSample ==
    [][lastAct' = "compute_cpu_usage"
          => /\ nset[1] <= 1 => proc_list'[1].cpu_usage = proc_list[1].cpu_usage
             /\ (nset[1] >= 2 /\ max_value > 0) =>
                   \E elapsed \in 1..MaxElapsed :
                       proc_list'[1].cpu_usage
                           = UsageFromDeltas(proc_list[1], elapsed, max_value)]_vars


(***************************************************************************)
(* Specification SpecSources: a CpusWrapper and an entity map side by      *)
(* side, each refreshed from its own source, which may fail to be read or  *)
(* be empty.                                                               *)
(***************************************************************************)
\* /scheme/sys/stat is empty, or has the global line and the line of one core
SourceLayouts == {<<>>, <<GlobalName, CoreName(0)>>}

\* /scheme/sys/context is empty, or has the header and the record of process 1
SourceEnumerations == {<<>>, <<HeaderLine, FullLine(Some(1), 0)>>}

InitSources ==
    /\ global_cpu = CpusWrapper_new.global_cpu
    /\ cpus = CpusWrapper_new.cpus
    /\ last_update = CpusWrapper_new.last_update
    /\ last_call = None
    /\ layout \in SourceLayouts
    /\ tick = 0
    /\ looked_up = FALSE
    /\ lookup_now = FALSE
    /\ cpuAct = "none"
    /\ proc_list = <<>>
    /\ enumeration \in SourceEnumerations
    /\ max_value = 0
    /\ nset = <<>>
    /\ touched = {}
    /\ time_args = None
    /\ read_failed = FALSE
    /\ chosen = None
    /\ lastAct = "none"
    /\ ret = None
    /\ UsageIdle
    /\ GuardIdle
    /\ panicked = FALSE

NextSources == Refresh \/ TimePasses \/ SourceChanges \/ RefreshProcs

SpecSources == InitSources /\ [][NextSources]_vars

\* C24: when the raw source cannot be read, or is empty, a refresh pass
\* completes without failure and changes no sampled data: CpusWrapper::refresh
\* leaves the global accumulator, every per-core accumulator and the list of
\* Core Entities unchanged, and refresh_procs returns 0 and leaves the entity
\* map and every Process Entity unchanged.
C24_NoSourceNoChange ==
    [][/\ (/\ RefreshCall
           /\ cpuAct' = "failed" \/ (cpuAct' = "read" /\ layout = <<>>))
             => /\ global_cpu' = global_cpu
                /\ cpus' = cpus
                /\ ~panicked'
       /\ (/\ lastAct' = "refresh_procs"
           /\ read_failed' \/ enumeration = <<>>)
             => /\ proc_list' = proc_list
                /\ ret' = Some(0)
                /\ ~panicked']_vars

\* both sources have just failed to be read, after passes that sampled them:
\* the accumulators hold counters and the map holds an entity
C24_Witness ==
    /\ cpuAct = "failed"
    /\ cpus # <<>>
    /\ global_cpu.new_values # CpuValues_default
    /\ global_cpu.new_values.user # tick
    /\ lastAct = "refresh_procs"
    /\ read_failed
    /\ proc_list # <<>>
    /\ ret = Some(0)


(***************************************************************************)
(* Specification SpecSelect: refresh_procs passes whose selector is kept   *)
(* track of, over the texts of SpecProcs, while processes leave the text.  *)
(***************************************************************************)
InitSelect == InitProcs

\* one refresh_procs pass; `chosen` keeps its selector
RefreshChosen ==
    \E selector \in Selectors, readable \in BOOLEAN :
        RefreshProcsWith(selector, readable) /\ chosen' = Some(selector)

NextSelect == RefreshChosen \/ ProcessExits

SpecSelect == InitSelect /\ [][NextSelect]_vars

\* the records the pass just made had before it
RecordsRead == IF read_failed' THEN <<>> ELSE records_of(Some(enumeration))

\* C25: with the selector Some(ids), refresh_procs neither creates nor modifies
\* a Process Entity whose process id is not in ids, and records with such ids
\* do not contribute to the returned count; with the selector All every record
\* with a parsable process id is upserted.
C25_SelectorIsRespected ==
    [][(chosen' # None /\ lastAct' = "refresh_procs")
          => LET sel  == Unwrap(chosen')
                 recs == RecordsRead
             IN  /\ ~sel.all =>
                       /\ \A pid \in DOMAIN proc_list' \ sel.pids :
                             pid \in DOMAIN proc_list /\ proc_list'[pid] = proc_list[pid]
                       /\ ret' # None =>
                             Unwrap(ret') = Cardinality({j \in DOMAIN recs :
                                                /\ recs[j].pid # None
                                                /\ Unwrap(recs[j].pid) \in sel.pids})
                 /\ sel.all =>
                       \A j \in DOMAIN recs :
                           recs[j].pid # None =>
                               /\ Unwrap(recs[j].pid) \in DOMAIN proc_list'
                               /\ Unwrap(recs[j].pid) \in touched']_vars


(***************************************************************************)
(* _get_stat_data: sampling the stat file into the slot of an entity.      *)
(* Each thread samples one entity; stat_file[t] is that entity's slot.     *)
(***************************************************************************)
\* an assignment that leaves the slot alone when there is no new guard
assign_if_some(old, new, r) ==
    [slot      |-> new \/ old,
     remaining |-> IF old /\ new THEN FileCounter_drop(r) ELSE r,
     dropped   |-> old /\ new]

\* `*stat_file = value`: the value, already computed, is moved into the slot
\* and the guard the slot held (old) is dropped; r is the counter
assign_stat_file(old, new, r) ==
    [slot      |-> new,
     remaining |-> IF old THEN FileCounter_drop(r) ELSE r,
     dropped   |-> old]

\* the guard FileCounter::new gave to thread t that is not in the slot yet
Fresh(t) == held[t] - (IF stat_file[t] THEN 1 ELSE 0)

\* thread t changes the counter: no other thread is alone with it any more
NoteChange(t) == [u \in Threads |-> IF u = t THEN alone[u] ELSE FALSE]

RecordWithin(e) == IF Len(log) < MaxLog THEN Append(log, e) ELSE log

\* after reading the value r inside fetch_update, FileCounter::new either
\* returns None to _get_stat_data, which goes on to the assignment, or goes
\* on to the compare-exchange
SlotAfterRead(t, r) ==
    IF fetch_update_fn(r) = None
    THEN /\ pc' = [pc EXCEPT ![t] = "assign"]
         /\ prev' = [prev EXCEPT ![t] = 0]
         /\ log' = RecordWithin("none")
    ELSE /\ pc' = [pc EXCEPT ![t] = "slot_cas"]
         /\ prev' = [prev EXCEPT ![t] = r]
         /\ log' = log

\* _get_stat_data: the file was opened and read; the right-hand side of the
\* assignment starts with the load of fetch_update
GetStatLoad(t) ==
    /\ pc[t] = "idle"
    /\ Len(log) < MaxLog
    /\ SlotAfterRead(t, remaining)
    /\ before' = [before EXCEPT ![t] = remaining]
    /\ alone' = [alone EXCEPT ![t] = TRUE]
    /\ UNCHANGED <<remaining, held, contended, stat_file, usageVars, procVars, panicked, cpuVars>>

\* _get_stat_data: the file could not be opened or read (`?` returns early)
GetStatErr(t) ==
    /\ pc[t] = "idle"
    /\ Len(log) < MaxLog
    /\ log' = RecordWithin("err")
    /\ UNCHANGED <<remaining, pc, prev, held, contended, slotVars, usageVars, procVars, panicked, cpuVars>>

\* the compare-exchange of FileCounter::new inside _get_stat_data
GetStatCas(t) ==
    /\ pc[t] = "slot_cas"
    /\ LET cas == compare_exchange(remaining, prev[t], Unwrap(fetch_update_fn(prev[t])))
       IN  /\ remaining' = cas.value
           /\ IF cas.ok
              THEN /\ pc' = [pc EXCEPT ![t] = "assign"]
                   /\ prev' = [prev EXCEPT ![t] = 0]
                   /\ held' = [held EXCEPT ![t] = @ + 1]
                   /\ log' = RecordWithin("ok")
                   /\ alone' = NoteChange(t)
                   /\ UNCHANGED contended
              ELSE /\ SlotAfterRead(t, remaining)
                   /\ contended' = TRUE
                   /\ UNCHANGED <<held, alone>>
    /\ UNCHANGED <<stat_file, before, usageVars, procVars, panicked, cpuVars>>

GetStatCasSpurious(t) ==
    /\ pc[t] = "slot_cas"
    /\ remaining = prev[t]
    /\ UNCHANGED vars

\* _get_stat_data: the assignment to the slot, then Ok(data)
GetStatAssign(t) ==
    /\ pc[t] = "assign"
    /\ LET a == assign_stat_file(stat_file[t], Fresh(t) > 0, remaining)
       IN  /\ remaining' = a.remaining
           /\ stat_file' = [stat_file EXCEPT ![t] = a.slot]
           /\ held' = [held EXCEPT ![t] = IF a.dropped THEN @ - 1 ELSE @]
           /\ log' = IF a.dropped THEN RecordWithin("drop") ELSE log
           /\ alone' = IF a.dropped THEN NoteChange(t) ELSE alone
    /\ pc' = [pc EXCEPT ![t] = "idle"]
    /\ UNCHANGED <<prev, contended, before, usageVars, procVars, panicked, cpuVars>>

\* the entity goes away and its slot with it: the guard in it is dropped
SlotDropped(t) ==
    /\ pc[t] = "idle"
    /\ stat_file[t]
    /\ Len(log) < MaxLog
    /\ remaining' = FileCounter_drop(remaining)
    /\ held' = [held EXCEPT ![t] = @ - 1]
    /\ stat_file' = [stat_file EXCEPT ![t] = FALSE]
    /\ log' = RecordWithin("drop")
    /\ alone' = NoteChange(t)
    /\ UNCHANGED <<pc, prev, contended, before, usageVars, procVars, panicked, cpuVars>>

InitSlot == InitGuard

NextSlot ==
    \E t \in Threads :
        \/ GetStatLoad(t)
        \/ GetStatErr(t)
        \/ GetStatCas(t)
        \/ GetStatCasSpurious(t)
        \/ GetStatAssign(t)
        \/ SlotDropped(t)

SpecSlot == InitSlot /\ [][NextSlot]_vars

\* C30: when _get_stat_data samples into a slot that holds a guard, the new
\* guard is asked for while the old one is still held, and the request fails
\* exactly when the counter is 0 at that moment.  The assignment then drops
\* the old guard: after a failed request the slot is empty and the counter is
\* one more (1 when no other thread has touched it); after a granted request
\* the slot holds exactly one guard and the counter is what it was before the
\* call when no other thread has touched it.  Counter plus live guards is the
\* initial budget afterwards.
C30_ResampleAcquiresBeforeRelease ==
    [][\A t \in Threads :
          /\ (stat_file[t] /\ pc[t] # "assign" /\ pc'[t] = "assign") =>
                /\ stat_file'[t]
                /\ held'[t] >= held[t]
                /\ (held'[t] = held[t]) <=> (remaining = 0)
          /\ (stat_file[t] /\ pc[t] = "assign" /\ pc'[t] = "idle") =>
                /\ Fresh(t) = 0 =>
                      /\ ~stat_file'[t]
                      /\ held'[t] = 0
                      /\ remaining' = remaining + 1
                      /\ alone[t] => (before[t] = 0 /\ remaining' = 1)
                /\ Fresh(t) > 0 =>
                      /\ stat_file'[t]
                      /\ held'[t] = 1
                      /\ alone[t] => (before[t] > 0 /\ remaining' = before[t])
                /\ remaining' + LiveGuards' = Budget]_vars

\* a re-sample of a held slot has just failed with the counter at 0: the slot
\* is empty and the counter is 1
C30_Witness ==
    \E t \in Threads :
        /\ pc[t] = "idle"
        /\ alone[t]
        /\ before[t] = 0
        /\ ~stat_file[t]
        /\ held[t] = 0
        /\ remaining = 1
        /\ Len(log) >= 3
        /\ SubSeq(log, Len(log) - 1, Len(log)) = <<"none", "drop">>

=============================================================================
